---- MODULE Spec2Model ----
(***************************************************************************)
(* State-machine model of the voice conversation client of src/App.tsx:    *)
(* the session lifecycle (startConversation / stopConversation and the     *)
(* channel callbacks onopen, onmessage, onerror, onclose), the gapless     *)
(* playback cursor and the active-source set, and the transcript           *)
(* accumulators.  Every asynchronous continuation of the source (the       *)
(* awaits of startConversation, the awaited decode inside onmessage, the   *)
(* 'ended' listener) is an action of its own.                              *)
(***************************************************************************)
EXTENDS Naturals, Sequences, FiniteSets

\* ------------------------------------------------------------- bounds
MaxSessions == 2      \* startConversation calls in one run
MaxDeliveries == 3    \* inbound deliveries (onmessage calls) in one run
MaxAudioDeliveries == 2  \* deliveries in one run of the audio path
MaxChunks == 2        \* audio chunks received in one run
MaxTime == 2          \* ticks of the output device clock
MaxTexts == 2         \* text submissions in one run of the text path

HistoryCap == 50      \* slice(-50) of the turn finalisation

Sessions == 1..MaxSessions
Handlers == 1..MaxDeliveries
Durations == {1, 2}   \* durations of decoded buffers, in ticks
TalkModes == {"continuous", "ptt"}
InputFragments == {<<"a">>, <<"b">>}   \* texts of inputTranscription
OutputFragments == {<<"c">>}           \* texts of outputTranscription
Texts == {<<>>, <<"a">>}               \* textInput.trim(), <<>> when empty

VARIABLES
    status,             \* useState status
    activeSessionRef,   \* session whose handle the ref holds, 0 = null
    scriptProcessorRef, \* session whose processor the ref holds, 0 = null
    micStreamRef,       \* session whose stream the ref holds, 0 = null
    nextStartTime,      \* nextStartTimeRef.current
    sources,            \* sourcesRef.current: [chunk, end] of each source in the set
    isModelSpeaking,    \* useState isModelSpeaking
    currentInput,       \* useState currentInput, a sequence of fragments
    currentOutput,      \* useState currentOutput
    messages,           \* useState messages
    pc,                 \* per startConversation call: where its async body stands
    chan,               \* per session: the channel returned by ai.live.connect
    proc,               \* per session: the ScriptProcessorNode made by onopen
    micLive,            \* per session: the tracks of its MediaStream are live
    sentFrame,          \* per session: a captured frame was sent on its channel
    capIn,              \* per session: currentInput as closed over by onmessage
    capOut,             \* per session: currentOutput as closed over by onmessage
    nSessions,          \* startConversation calls so far
    handlers,           \* per delivery: the state of its onmessage invocation
    nDeliveries,        \* deliveries so far
    nChunks,            \* audio chunks received so far (arrival numbering)
    now,                \* audioContextOut.currentTime
    started,            \* record of the last source.start() call
    talkMode,           \* useState talkMode
    isPTTPressed,       \* useState isPTTPressed
    talkModeRef,        \* talkModeRef.current
    isPTTPressedRef,    \* isPTTPressedRef.current
    frame,              \* what the last onaudioprocess call did with its frame
    textSent            \* the last sendRealtimeInput({ text }) call

vars == <<status, activeSessionRef, scriptProcessorRef, micStreamRef,
          nextStartTime, sources, isModelSpeaking, currentInput, currentOutput,
          messages, pc, chan, proc, micLive, sentFrame, capIn, capOut,
          nSessions, handlers, nDeliveries, nChunks, now, started,
          talkMode, isPTTPressed, talkModeRef, isPTTPressedRef, frame,
          textSent>>

lifecycleVars == <<status, activeSessionRef, scriptProcessorRef, micStreamRef,
                   pc, chan, proc, micLive, sentFrame, capIn, capOut,
                   nSessions>>
transcriptVars == <<currentInput, currentOutput, messages, textSent>>
audioVars == <<nextStartTime, sources, isModelSpeaking, handlers, nDeliveries,
               nChunks, started>>
gateVars == <<talkMode, isPTTPressed, talkModeRef, isPTTPressedRef, frame>>

Max(a, b) == IF a >= b THEN a ELSE b

\* Array.prototype.slice(-n)
SliceLast(seq, n) ==
    IF Len(seq) <= n THEN seq ELSE SubSeq(seq, Len(seq) - n + 1, Len(seq))

\* No source.start() call since the last teardown (dead: since the last
\* interruption).
NoStart ==
    [chunk |-> 0, start |-> 0, dur |-> 0, at |-> 0, cutI |-> FALSE,
     cutT |-> FALSE, dead |-> FALSE, first |-> FALSE, prevChunk |-> 0,
     prevEnd |-> 0]

\* No text has been sent.
NoText == [sess |-> 0, text |-> <<>>, chan |-> "none"]

IdleHandler ==
    [pc |-> "unused", sess |-> 0, chunk |-> 0, rest |-> 0, intr |-> FALSE,
     cutI |-> FALSE, cutT |-> FALSE]

Init ==
    /\ status = "Disconnected"
    /\ activeSessionRef = 0
    /\ scriptProcessorRef = 0
    /\ micStreamRef = 0
    /\ nextStartTime = 0
    /\ sources = {}
    /\ isModelSpeaking = FALSE
    /\ currentInput = <<>>
    /\ currentOutput = <<>>
    /\ messages = <<>>
    /\ pc = [s \in Sessions |-> "unused"]
    /\ chan = [s \in Sessions |-> "none"]
    /\ proc = [s \in Sessions |-> "none"]
    /\ micLive = [s \in Sessions |-> FALSE]
    /\ sentFrame = [s \in Sessions |-> FALSE]
    /\ capIn = [s \in Sessions |-> <<>>]
    /\ capOut = [s \in Sessions |-> <<>>]
    /\ nSessions = 0
    /\ handlers = [h \in Handlers |-> IdleHandler]
    /\ nDeliveries = 0
    /\ nChunks = 0
    /\ now = 0
    /\ started = NoStart
    /\ talkMode = "continuous"
    /\ isPTTPressed = FALSE
    /\ talkModeRef = "continuous"
    /\ isPTTPressedRef = FALSE
    /\ frame = "none"
    /\ textSent = NoText

\* ------------------------------------------------- teardown (App.tsx 78-96)
\* The part of the state stopConversation reads or writes, as one record.
Cur ==
    [status |-> status, activeSessionRef |-> activeSessionRef,
     scriptProcessorRef |-> scriptProcessorRef, micStreamRef |-> micStreamRef,
     nextStartTime |-> nextStartTime, sources |-> sources,
     isModelSpeaking |-> isModelSpeaking, chan |-> chan, proc |-> proc,
     micLive |-> micLive, currentInput |-> currentInput,
     currentOutput |-> currentOutput, messages |-> messages]

\* session.close(): an open channel starts closing, its close event is pending
CloseChannel(ch, s) ==
    IF s # 0 /\ ch[s] = "open" THEN [ch EXCEPT ![s] = "closing"] ELSE ch

\* scriptProcessor.disconnect()
DisconnectProcessor(pr, s) ==
    IF s # 0 THEN [pr EXCEPT ![s] = "disconnected"] ELSE pr

\* stream.getTracks().forEach(track => track.stop())
StopTracks(ml, s) ==
    IF s # 0 THEN [ml EXCEPT ![s] = FALSE] ELSE ml

\* stopConversation, as a function of the state it is called in
stopConversation(st) ==
    [st EXCEPT
        !.chan = CloseChannel(st.chan, st.activeSessionRef),
        !.activeSessionRef = 0,
        !.proc = DisconnectProcessor(st.proc, st.scriptProcessorRef),
        !.scriptProcessorRef = 0,
        !.micLive = StopTracks(st.micLive, st.micStreamRef),
        !.micStreamRef = 0,
        !.sources = {},
        !.nextStartTime = 0,
        !.isModelSpeaking = FALSE,
        !.status = "Disconnected"]

\* An acquisition of startConversation (microphone, channel) is pending.
Pending(s) == pc[s] \in {"awaitMic", "awaitConnect"}

\* Handlers suspended at the decode await when a reset (interrupt or teardown)
\* runs are marked: what they schedule later was received before the reset.
MarkInFlight(hs, field) ==
    [h \in Handlers |->
        IF hs[h].pc = "decoding"
        THEN IF field = "cutT" THEN [hs[h] EXCEPT !.cutT = TRUE]
                               ELSE [hs[h] EXCEPT !.cutI = TRUE]
        ELSE hs[h]]

\* The state after a handler that ends in stopConversation, called in state st.
Teardown(st) ==
    LET r == stopConversation(st) IN
    /\ status' = r.status
    /\ activeSessionRef' = r.activeSessionRef
    /\ scriptProcessorRef' = r.scriptProcessorRef
    /\ micStreamRef' = r.micStreamRef
    /\ nextStartTime' = r.nextStartTime
    /\ sources' = r.sources
    /\ isModelSpeaking' = r.isModelSpeaking
    /\ proc' = r.proc
    /\ micLive' = r.micLive
    /\ handlers' = MarkInFlight(handlers, "cutT")
    /\ started' = NoStart
    /\ UNCHANGED <<transcriptVars, gateVars, pc, sentFrame, capIn, capOut,
                   nSessions, nDeliveries, nChunks, now>>

\* ------------------------------------------ session lifecycle (98-229)
\* Start / Retry button (354-360), startConversation up to its first await.
StartConversation ==
    /\ status \in {"Disconnected", "Error"}
    /\ nSessions < MaxSessions
    /\ nSessions' = nSessions + 1
    /\ status' = "Connecting"
    /\ pc' = [pc EXCEPT ![nSessions + 1] = "awaitMic"]
    /\ capIn' = [capIn EXCEPT ![nSessions + 1] = currentInput]
    /\ capOut' = [capOut EXCEPT ![nSessions + 1] = currentOutput]
    /\ UNCHANGED <<activeSessionRef, scriptProcessorRef, micStreamRef, chan,
                   proc, micLive, sentFrame, transcriptVars,
                   audioVars, gateVars, now>>

\* getUserMedia resolves: the stream is stored and ai.live.connect is called.
MicGranted(s) ==
    /\ pc[s] = "awaitMic"
    /\ micStreamRef' = s
    /\ micLive' = [micLive EXCEPT ![s] = TRUE]
    /\ chan' = [chan EXCEPT ![s] = "connecting"]
    /\ pc' = [pc EXCEPT ![s] = "awaitConnect"]
    /\ UNCHANGED <<status, activeSessionRef, scriptProcessorRef, proc,
                   sentFrame, capIn, capOut, nSessions,
                   transcriptVars, audioVars, gateVars, now>>

\* getUserMedia rejects: the catch block.
MicDenied(s) ==
    /\ pc[s] = "awaitMic"
    /\ status' = "Error"
    /\ pc' = [pc EXCEPT ![s] = "failed"]
    /\ UNCHANGED <<activeSessionRef, scriptProcessorRef, micStreamRef, chan,
                   proc, micLive, sentFrame, capIn, capOut, nSessions,
                   transcriptVars, audioVars, gateVars, now>>

\* The connect promise rejects: the catch block.
ConnectFail(s) ==
    /\ pc[s] = "awaitConnect"
    /\ status' = "Error"
    /\ chan' = [chan EXCEPT ![s] = IF @ = "connecting" THEN "closed" ELSE @]
    /\ pc' = [pc EXCEPT ![s] = "failed"]
    /\ UNCHANGED <<activeSessionRef, scriptProcessorRef, micStreamRef, proc,
                   micLive, sentFrame, capIn, capOut, nSessions,
                   transcriptVars, audioVars, gateVars, now>>

\* onopen
ChannelOpen(s) ==
    /\ pc[s] = "awaitConnect"
    /\ chan[s] = "connecting"
    /\ status' = "Connected"
    /\ proc' = [proc EXCEPT ![s] = "connected"]
    /\ scriptProcessorRef' = s
    /\ chan' = [chan EXCEPT ![s] = "open"]
    /\ pc' = [pc EXCEPT ![s] = "awaitSession"]
    /\ UNCHANGED <<activeSessionRef, micStreamRef, micLive, sentFrame, capIn,
                   capOut, nSessions, transcriptVars, audioVars,
                   gateVars, now>>

\* await sessionPromise resumes: activeSessionRef.current = session
SessionResolved(s) ==
    /\ pc[s] = "awaitSession"
    /\ activeSessionRef' = s
    /\ pc' = [pc EXCEPT ![s] = "ready"]
    /\ UNCHANGED <<status, scriptProcessorRef, micStreamRef, chan, proc,
                   micLive, sentFrame, capIn, capOut, nSessions,
                   transcriptVars, audioVars, gateVars, now>>

\* End Session button (405-410): shown while Connecting or Connected.
UserStop ==
    /\ status \in {"Connecting", "Connected"}
    /\ Teardown(Cur)
    /\ chan' = stopConversation(Cur).chan

\* onerror: setStatus(ERROR), then stopConversation().  The transport has
\* failed, so the channel's close event is pending afterwards.
ChannelError(s) ==
    /\ chan[s] \in {"connecting", "open"}
    /\ Teardown([Cur EXCEPT !.status = "Error"])
    /\ chan' = [stopConversation(Cur).chan EXCEPT ![s] = "closing"]

\* onclose: setStatus(DISCONNECTED), then stopConversation().  Fires for a
\* remote close and for the close that session.close() started.
ChannelClose(s) ==
    /\ chan[s] \in {"open", "closing"}
    /\ Teardown([Cur EXCEPT !.status = "Disconnected"])
    /\ chan' = [stopConversation(Cur).chan EXCEPT ![s] = "closed"]

\* ------------------------------------------------ capture (133-139)
\* CaptureGate: the condition of onaudioprocess
ShouldTransmit == talkModeRef = "continuous" \/ isPTTPressedRef

\* onaudioprocess of the processor that onopen of session s created
AudioProcess(s) ==
    /\ proc[s] = "connected"
    /\ sentFrame' = [sentFrame EXCEPT ![s] = @ \/ ShouldTransmit]
    /\ frame' = IF ShouldTransmit THEN "sent" ELSE "dropped"
    /\ UNCHANGED <<status, activeSessionRef, scriptProcessorRef, micStreamRef,
                   pc, chan, proc, micLive, capIn, capOut, nSessions,
                   transcriptVars, audioVars, talkMode, isPTTPressed,
                   talkModeRef, isPTTPressedRef, now>>

\* The Continuous / Push to Talk buttons (333-334): setTalkMode
SetTalkMode(mode) ==
    /\ talkMode' = mode
    /\ UNCHANGED <<lifecycleVars, transcriptVars, audioVars, isPTTPressed,
                   talkModeRef, isPTTPressedRef, frame, now>>

\* The push-to-talk button is rendered while a session is starting or
\* running and the talk mode is Push to Talk (354, 385-398).
PTTButtonShown == status \in {"Connecting", "Connected"} /\ talkMode = "ptt"

\* 247: onMouseDown / onTouchStart
handlePTTDown ==
    /\ PTTButtonShown
    /\ isPTTPressed' = TRUE
    /\ UNCHANGED <<lifecycleVars, transcriptVars, audioVars, talkMode,
                   talkModeRef, isPTTPressedRef, frame, now>>

\* 248: onMouseUp / onMouseLeave / onTouchEnd
handlePTTUp ==
    /\ PTTButtonShown
    /\ isPTTPressed' = FALSE
    /\ UNCHANGED <<lifecycleVars, transcriptVars, audioVars, talkMode,
                   talkModeRef, isPTTPressedRef, frame, now>>

\* 41-44: the effect that runs after the render a state change caused
SyncRefs ==
    /\ talkModeRef' = talkMode
    /\ isPTTPressedRef' = isPTTPressed
    /\ UNCHANGED <<lifecycleVars, transcriptVars, audioVars, talkMode,
                   isPTTPressed, frame, now>>

\* The output device clock advances.
Tick ==
    /\ now < MaxTime
    /\ now' = now + 1
    /\ UNCHANGED <<lifecycleVars, transcriptVars, audioVars, gateVars>>

\* ------------------------------------------------ onmessage (143-200)
DoneHandler == [IdleHandler EXCEPT !.pc = "done"]

\* An inbound delivery: an optional output and input transcription fragment,
\* the turnComplete flag, the number of audio parts, the interrupted flag.
Message(hasOut, out, hasIn, in, tc, parts, intr) ==
    [hasOutput |-> hasOut, output |-> out, hasInput |-> hasIn, input |-> in,
     turnComplete |-> tc, parts |-> parts, interrupted |-> intr]

\* Deliveries that carry audio and signals only.
AudioMessages ==
    {Message(FALSE, <<>>, FALSE, <<>>, FALSE, n, i) :
        n \in 0..MaxChunks, i \in BOOLEAN}

\* Deliveries that carry transcription fragments, the turnComplete flag and at
\* most one audio part.
TranscriptMessages ==
    {Message(ho, IF ho THEN o ELSE <<>>, hi, IF hi THEN i ELSE <<>>, tc, n, FALSE) :
        ho \in BOOLEAN, o \in OutputFragments, hi \in BOOLEAN,
        i \in InputFragments, tc \in BOOLEAN, n \in {0, 1}}

\* Deliveries of the history path: one input fragment, or turnComplete alone.
TurnMessages ==
    {Message(FALSE, <<>>, TRUE, <<"a">>, FALSE, 0, FALSE),
     Message(FALSE, <<>>, FALSE, <<>>, TRUE, 0, FALSE)}

\* 145-149: the output fragment wins over the input fragment (else if)
AppendOutput(m, out) == IF m.hasOutput THEN out \o m.output ELSE out
AppendInput(m, in) ==
    IF ~m.hasOutput /\ m.hasInput THEN in \o m.input ELSE in

\* 155-159: the messages finalised from the texts the handler closed over
Finalized(uText, mText) ==
    (IF uText # <<>> THEN <<[sender |-> "user", text |-> uText]>> ELSE <<>>)
    \o (IF mText # <<>> THEN <<[sender |-> "model", text |-> mText]>> ELSE <<>>)

\* 144-163 for a message of the channel of session s
Transcription(s, m) ==
    IF m.turnComplete
    THEN /\ messages' = IF capIn[s] # <<>> \/ capOut[s] # <<>>
                        THEN SliceLast(messages \o Finalized(capIn[s], capOut[s]),
                                       HistoryCap)
                        ELSE messages
         /\ currentInput' = <<>>
         /\ currentOutput' = <<>>
    ELSE /\ messages' = messages
         /\ currentInput' = AppendInput(m, currentInput)
         /\ currentOutput' = AppendOutput(m, currentOutput)

\* A cursor that is set to the device time even when it is ahead of it.
PrepareCursorNow(nst, t) == t

\* 175: nextStartTime = Math.max(nextStartTime, ctx.currentTime)
PrepareCursor(nst, t) == Max(nst, t)

\* 187: the time passed to source.start()
StartTime(nst) == nst

\* A cursor that is not advanced by the buffer's duration.
AdvanceCursorKeep(nst, d) == nst

\* 188: nextStartTime += audioBuffer.duration
AdvanceCursor(nst, d) == nst + d

\* The previous start() call counts as the predecessor of the next one
\* while no interruption or teardown has run since.
HasPrev == started.chunk # 0 /\ ~started.dead

\* The record of one source.start() call: the chunk, the time passed to
\* start(), the buffer's duration, the device time of the call, whether the
\* chunk was received before an interruption (cutI) or a teardown (cutT) that
\* has run since, whether it is the first call after an interruption, and the
\* predecessor's chunk and end (start + duration), 0 when it has none.
Started(hr, d) ==
    [chunk |-> hr.chunk, start |-> StartTime(nextStartTime), dur |-> d,
     at |-> now, cutI |-> hr.cutI, cutT |-> hr.cutT, dead |-> FALSE,
     first |-> started.dead,
     prevChunk |-> IF HasPrev THEN started.chunk ELSE 0,
     prevEnd |-> IF HasPrev THEN started.start + started.dur ELSE 0]

\* The source that call adds to sourcesRef: it plays until start + duration.
Source(hr, d) == [chunk |-> hr.chunk, end |-> StartTime(nextStartTime) + d]

\* 194-199: the interrupted branch, run by handler h
Interrupted(h, rec) ==
    /\ sources' = {}
    /\ nextStartTime' = 0
    /\ isModelSpeaking' = FALSE
    /\ started' = [rec EXCEPT !.dead = TRUE]
    /\ handlers' = MarkInFlight([handlers EXCEPT ![h] = DoneHandler], "cutI")

\* onmessage, from its call to its first await or its end
OnMessage(s, m) ==
    /\ chan[s] = "open"
    /\ nDeliveries < MaxDeliveries
    /\ nChunks + m.parts <= MaxChunks
    /\ nDeliveries' = nDeliveries + 1
    /\ nChunks' = nChunks + m.parts
    /\ Transcription(s, m)
    /\ UNCHANGED textSent
    /\ LET h == nDeliveries + 1 IN
       IF m.parts > 0
       THEN /\ isModelSpeaking' = TRUE
            /\ nextStartTime' = PrepareCursor(nextStartTime, now)
            /\ handlers' = [handlers EXCEPT ![h] =
                   [pc |-> "decoding", sess |-> s, chunk |-> nChunks + 1,
                    rest |-> m.parts - 1, intr |-> m.interrupted,
                    cutI |-> FALSE, cutT |-> FALSE]]
            /\ UNCHANGED <<sources, started>>
       ELSE IF m.interrupted
       THEN Interrupted(h, NoStart)
       ELSE /\ handlers' = [handlers EXCEPT ![h] = DoneHandler]
            /\ UNCHANGED <<sources, nextStartTime, isModelSpeaking, started>>
    /\ UNCHANGED <<lifecycleVars, gateVars, now>>

\* The awaited decode of handler h resolves with a buffer of duration d:
\* 178-189, then the next part up to its await, or the end of the handler.
DecodeDone(h, d) ==
    LET hr == handlers[h]
        log1 == Started(hr, d)
        nst1 == AdvanceCursor(nextStartTime, d)
        src1 == sources \cup {Source(hr, d)}
    IN
    /\ hr.pc = "decoding"
    /\ IF hr.rest > 0
       THEN /\ isModelSpeaking' = TRUE
            /\ nextStartTime' = PrepareCursor(nst1, now)
            /\ sources' = src1
            /\ started' = log1
            /\ handlers' = [handlers EXCEPT ![h].chunk = @ + 1,
                                            ![h].rest = @ - 1]
       ELSE IF hr.intr
       THEN Interrupted(h, log1)
       ELSE /\ nextStartTime' = nst1
            /\ sources' = src1
            /\ started' = log1
            /\ handlers' = [handlers EXCEPT ![h] = DoneHandler]
            /\ UNCHANGED isModelSpeaking
    /\ UNCHANGED <<lifecycleVars, transcriptVars, gateVars, nDeliveries,
                   nChunks, now>>

\* The awaited decode rejects: the handler's promise rejects and nothing
\* after the await runs.
DecodeFail(h) ==
    /\ handlers[h].pc = "decoding"
    /\ handlers' = [handlers EXCEPT ![h] = [IdleHandler EXCEPT !.pc = "failed"]]
    /\ UNCHANGED <<lifecycleVars, transcriptVars, gateVars, nextStartTime,
                   sources, isModelSpeaking, nDeliveries, nChunks, started,
                   now>>

\* 182-185: the 'ended' listener of a source that played to its end
SourceEnded(c) ==
    /\ c \in sources
    /\ now >= c.end
    /\ sources' = sources \ {c}
    /\ isModelSpeaking' = IF sources \ {c} = {} THEN FALSE ELSE isModelSpeaking
    /\ UNCHANGED <<lifecycleVars, transcriptVars, gateVars, nextStartTime,
                   handlers, nDeliveries, nChunks, started, now>>

\* 231-245: the text form, rendered while a session is starting or running
handleSendText(text) ==
    /\ status \in {"Connecting", "Connected"}
    /\ IF text = <<>> \/ activeSessionRef = 0
       THEN UNCHANGED <<messages, textSent>>
       ELSE /\ messages' = Append(messages, [sender |-> "user", text |-> text])
            /\ textSent' = [sess |-> activeSessionRef, text |-> text,
                            chan |-> chan[activeSessionRef]]
    /\ UNCHANGED <<lifecycleVars, currentInput, currentOutput, audioVars,
                   gateVars, now>>

\* ---------------------------------------------------- specifications
\* The session lifecycle: every start, stop and channel event of up to
\* MaxSessions startConversation calls, and the capture callback.
NextSession ==
    \/ StartConversation
    \/ \E s \in Sessions : MicGranted(s)
    \/ \E s \in Sessions : MicDenied(s)
    \/ \E s \in Sessions : ConnectFail(s)
    \/ \E s \in Sessions : ChannelOpen(s)
    \/ \E s \in Sessions : SessionResolved(s)
    \/ UserStop
    \/ \E s \in Sessions : ChannelError(s)
    \/ \E s \in Sessions : ChannelClose(s)
    \/ \E s \in Sessions : AudioProcess(s)

SpecSession == Init /\ [][NextSession]_vars

\* The audio path of one session: its startup, the deliveries of its channel
\* with their awaited decodes, the device clock, and every teardown.
FirstStart == nSessions = 0 /\ StartConversation

\* A delivery of the audio path, of at most MaxAudioDeliveries in a run.
AudioDelivery(s, m) == nDeliveries < MaxAudioDeliveries /\ OnMessage(s, m)

NextAudio ==
    \/ FirstStart
    \/ \E s \in Sessions : MicGranted(s)
    \/ \E s \in Sessions : ChannelOpen(s)
    \/ \E s \in Sessions : SessionResolved(s)
    \/ UserStop
    \/ \E s \in Sessions : ChannelClose(s)
    \/ \E s \in Sessions, m \in AudioMessages : AudioDelivery(s, m)
    \/ \E h \in Handlers, d \in Durations : DecodeDone(h, d)
    \/ \E h \in Handlers : DecodeFail(h)
    \/ \E c \in sources : SourceEnded(c)
    \/ Tick

SpecAudio == Init /\ [][NextAudio]_vars

\* The awaited decode of handler h settles, one way or the other.
DecodeSettles(h) == DecodeFail(h) \/ \E d \in Durations : DecodeDone(h, d)

\* A source that has played to its end fires its 'ended' listener.
EndSource == \E c \in sources : SourceEnded(c)

\* The audio path with its scheduling: an awaited decode settles, the device
\* clock advances, and a source that has played to its end fires 'ended'.
\* Deliveries, stops and channel events may or may not come.
SpecAudioFair ==
    /\ Init
    /\ [][NextAudio]_vars
    /\ \A h \in Handlers : WF_vars(DecodeSettles(h))
    /\ WF_vars(EndSource)
    /\ WF_vars(Tick)

\* Capture gating of one session: the talk mode buttons, the push-to-talk
\* button, the effect that copies both into the refs, and the capture callback.
NextGate ==
    \/ FirstStart
    \/ \E s \in Sessions : MicGranted(s)
    \/ \E s \in Sessions : ChannelOpen(s)
    \/ \E s \in Sessions : SessionResolved(s)
    \/ UserStop
    \/ \E mode \in TalkModes : SetTalkMode(mode)
    \/ handlePTTDown
    \/ handlePTTUp
    \/ SyncRefs
    \/ \E s \in Sessions : AudioProcess(s)

SpecGate == Init /\ [][NextGate]_vars

\* The transcript path of one session: deliveries that carry fragments, turn
\* completions and audio, and the awaited decodes.
NextTranscript ==
    \/ FirstStart
    \/ \E s \in Sessions : MicGranted(s)
    \/ \E s \in Sessions : ChannelOpen(s)
    \/ \E s \in Sessions : SessionResolved(s)
    \/ UserStop
    \/ \E s \in Sessions, m \in TranscriptMessages : OnMessage(s, m)
    \/ \E h \in Handlers, d \in Durations : DecodeDone(h, d)

SpecTranscript == Init /\ [][NextTranscript]_vars

\* A text submission while the history has not yet outgrown its cap by one.
SendText(text) == Len(messages) <= HistoryCap /\ handleSendText(text)

\* The history path: up to MaxSessions sessions, input fragments, turn
\* completions and text submissions.
NextHistory ==
    \/ StartConversation
    \/ \E s \in Sessions : MicGranted(s)
    \/ \E s \in Sessions : ChannelOpen(s)
    \/ \E s \in Sessions : SessionResolved(s)
    \/ UserStop
    \/ \E s \in Sessions, m \in TurnMessages : OnMessage(s, m)
    \/ \E text \in Texts : SendText(text)

SpecHistory == Init /\ [][NextHistory]_vars

\* A text submission, of at most MaxTexts accepted ones in a run.
SubmitText(text) == Len(messages) < MaxTexts /\ handleSendText(text)

\* The text path: every start, stop and channel event of up to MaxSessions
\* sessions, and text submissions.
NextText ==
    \/ StartConversation
    \/ \E s \in Sessions : MicGranted(s)
    \/ \E s \in Sessions : MicDenied(s)
    \/ \E s \in Sessions : ConnectFail(s)
    \/ \E s \in Sessions : ChannelOpen(s)
    \/ \E s \in Sessions : SessionResolved(s)
    \/ UserStop
    \/ \E s \in Sessions : ChannelError(s)
    \/ \E s \in Sessions : ChannelClose(s)
    \/ \E text \in Texts : SubmitText(text)

SpecText == Init /\ [][NextText]_vars

\* ------------------------------------------------------------ claims
\* A step in which handler h resumes from its decode await.
Resumes(h) ==
    /\ handlers[h].pc = "decoding"
    /\ handlers'[h].pc # "decoding" \/ handlers'[h].chunk # handlers[h].chunk

\* A step that calls source.start(): the record of the last call changes chunk.
Starts == started'.chunk # 0 /\ started'.chunk # started.chunk

Cut(r) == r.cutI \/ r.cutT

\* C1: of two chunks with no interruption or teardown between the receipt of
\* the first and the start of the second, the one received first is started
\* first and with the strictly earlier start time, whatever the order in which
\* the decodes complete.
C1_ArrivalOrder ==
    [][(Starts /\ HasPrev /\ ~Cut(started) /\ ~Cut(started'))
        => (started.chunk < started'.chunk /\ started.start < started'.start)]_vars

\* C2: a handler that resumes from its decode after a teardown adds no source,
\* starts no playback, leaves nextStartTime alone, does not set the speaking
\* flag and changes neither the accumulators nor the history.
C2_DroppedAfterTeardown ==
    [][\A h \in Handlers :
        (Resumes(h) /\ handlers[h].cutT)
        => /\ sources' = sources
           /\ nextStartTime' = nextStartTime
           /\ ~Starts
           /\ isModelSpeaking' => isModelSpeaking
           /\ UNCHANGED transcriptVars]_vars

\* C3: a buffer started right after another one, with no interruption or
\* teardown between the two, starts exactly where its predecessor ends
\* whenever that end is not before the device time of the call.
C3_Gapless ==
    (started.chunk # 0 /\ started.prevChunk # 0 /\ started.prevEnd >= started.at)
        => started.start = started.prevEnd

\* C3 witness: two handlers interleaved at their awaits (the chunk received
\* second was started first), the clock has advanced, and the second start
\* continues the first without gap or overlap.
C3_Witness ==
    /\ started.chunk # 0
    /\ started.prevChunk > started.chunk
    /\ started.at > 0
    /\ started.prevEnd >= started.at
    /\ started.start = started.prevEnd

\* C4: the time passed to source.start() is never before the device time of
\* the call.
C4_StartNotInPast == started.chunk # 0 => started.start >= started.at

\* C5: an interruption leaves the source set empty and the cursor at 0; the
\* first buffer started after it starts at the device time of the call; and
\* no chunk received before it is started after it.
C5_InterruptResets ==
    [][/\ (started'.dead /\ started' # started)
            => (sources' = {} /\ nextStartTime' = 0)
       /\ Starts
            => /\ ~started'.cutI
               /\ started'.first => started'.start = started'.at]_vars

\* The transitions of the status the claim lists, each with its event.  The
\* last disjunct is not on the list: End Session pressed while Connecting,
\* the one state besides Connected in which the button is shown.  It is let
\* through so that a violation is a change the list rules out for good.
ListedTransition ==
    \/ /\ status = "Disconnected" /\ status' = "Connecting"
       /\ StartConversation
    \/ /\ status = "Connecting" /\ status' = "Connected"
       /\ \E s \in Sessions : ChannelOpen(s)
    \/ /\ status \in {"Connecting", "Connected"} /\ status' = "Error"
       /\ \E s \in Sessions : ChannelError(s) \/ MicDenied(s) \/ ConnectFail(s)
    \/ /\ status = "Connected" /\ status' = "Disconnected"
       /\ UserStop \/ \E s \in Sessions : ChannelClose(s)
    \/ /\ status = "Error" /\ status' = "Connecting"
       /\ StartConversation
    \/ /\ status = "Connecting" /\ status' = "Disconnected"
       /\ UserStop

\* C6: every change of the status, which starts Disconnected, is one of the
\* listed transitions, made by the listed event.
C6_ListedTransitionsOnly == [][status' # status => ListedTransition]_vars

\* What a full teardown leaves: nothing held, nothing open, nothing playing.
Released ==
    /\ activeSessionRef = 0
    /\ scriptProcessorRef = 0
    /\ micStreamRef = 0
    /\ \A s \in Sessions :
        chan[s] # "open" /\ proc[s] # "connected" /\ ~micLive[s]
    /\ sources = {}
    /\ nextStartTime = 0
    /\ ~isModelSpeaking

\* C7: a channel error processed while Connecting or Connected leaves the
\* status Error, with the full teardown performed.
C7_ErrorSurfaces ==
    [][\A s \in Sessions :
        (status \in {"Connecting", "Connected"} /\ ChannelError(s))
        => (status' = "Error" /\ activeSessionRef' = 0
            /\ scriptProcessorRef' = 0 /\ micStreamRef' = 0
            /\ sources' = {} /\ nextStartTime' = 0)]_vars

\* C8: once a stop has run while the newest startup is still acquiring its
\* microphone or channel, and no new start is requested, the status does not
\* become Connected, no processor is created, no frame is sent, and the
\* stream and channel the startup obtains are not left open.
C8_StopCancelsStartup ==
    [][\A s \in Sessions :
        (s = nSessions /\ Pending(s) /\ status = "Disconnected"
         /\ nSessions' = nSessions)
        => /\ status' # "Connected"
           /\ proc'[s] = "none"
           /\ ~sentFrame'[s]
           /\ ~micLive'[s]
           /\ chan'[s] # "open"]_vars

\* Every startConversation call so far has run to its end.
Settled == \A s \in Sessions : pc[s] \in {"unused", "ready", "failed"}

\* C9: from Connected, with every startup settled, an explicit stop or a
\* channel-close signal leaves the status Disconnected and every session
\* resource released.
C9_StopReleasesAll ==
    [][(status = "Connected" /\ Settled
        /\ (UserStop \/ \E s \in Sessions : ChannelClose(s)))
        => (status' = "Disconnected" /\ Released')]_vars

\* No session is active: nothing is held and no startup is under way.
NoSession ==
    /\ status \in {"Disconnected", "Error"}
    /\ activeSessionRef = 0 /\ scriptProcessorRef = 0 /\ micStreamRef = 0
    /\ \A s \in Sessions : pc[s] \in {"unused", "failed"} \/ chan[s] = "closed"

\* C10: stopConversation is idempotent, and where no session is active it
\* changes nothing.
C10_StopIdempotentNoOp ==
    /\ stopConversation(stopConversation(Cur)) = stopConversation(Cur)
    /\ NoSession => stopConversation(Cur) = Cur

\* A delivery that carries the turnComplete flag and no fragment.
PlainTurnComplete(m) == m.turnComplete /\ ~m.hasInput /\ ~m.hasOutput

\* C11: a turn completion appends one message for each accumulator that is
\* not empty, with the accumulated text, the user message before the model
\* message, and leaves both accumulators empty.
C11_TurnFinalized ==
    [][\A s \in Sessions, m \in TranscriptMessages :
        (PlainTurnComplete(m) /\ OnMessage(s, m))
        => /\ messages' = SliceLast(messages \o Finalized(currentInput, currentOutput),
                                    HistoryCap)
           /\ currentInput' = <<>>
           /\ currentOutput' = <<>>]_vars

\* C12: a turn completion that finds both accumulators empty appends no
\* message, in every session.
C12_SilentTurn ==
    [][\A s \in Sessions, m \in TurnMessages :
        (PlainTurnComplete(m) /\ OnMessage(s, m)
         /\ currentInput = <<>> /\ currentOutput = <<>>)
        => messages' = messages]_vars

\* C13: the history never holds more than HistoryCap messages.
C13_HistoryCapped == Len(messages) <= HistoryCap

\* C14: a frame produced while connected is transmitted exactly when the talk
\* mode is Continuous or the push-to-talk button is pressed, by the values of
\* the moment the frame is produced.
C14_GateUsesLatest ==
    [][\A s \in Sessions :
        (status = "Connected" /\ AudioProcess(s))
        => (frame' = "sent" <=> (talkMode = "continuous" \/ isPTTPressed))]_vars

\* C15: when the decode of a chunk fails, the status does not change, the
\* source set keeps its other sources, the handler goes on to the next chunk
\* of its delivery, and after the last chunk it still processes the
\* delivery's interruption flag.
C15_DecodeFailureLocal ==
    [][\A h \in Handlers :
        DecodeFail(h)
        => /\ status' = status
           /\ handlers[h].rest > 0
                => (handlers'[h].pc = "decoding" /\ sources' = sources)
           /\ (handlers[h].rest = 0 /\ handlers[h].intr)
                => (sources' = {} /\ nextStartTime' = 0)
           /\ (handlers[h].rest = 0 /\ ~handlers[h].intr)
                => sources' = sources]_vars

\* C16: the model-speaking flag is true exactly when the source set is not
\* empty.
C16_SpeakingIffSources == isModelSpeaking <=> sources # {}

\* The startup of session s is under way, or its channel is still closing.
Incomplete(s) ==
    pc[s] \in {"awaitMic", "awaitConnect", "awaitSession"} \/ chan[s] = "closing"

\* C17: there is never more than one open channel, live microphone stream or
\* connected capture processor, and a start is never accepted while the
\* startup or the teardown of an earlier session is incomplete.
C17_SingleSession ==
    [][/\ Cardinality({s \in Sessions : chan'[s] = "open"}) <= 1
       /\ Cardinality({s \in Sessions : micLive'[s]}) <= 1
       /\ Cardinality({s \in Sessions : proc'[s] = "connected"}) <= 1
       /\ StartConversation => \A s \in Sessions : ~Incomplete(s)]_vars

\* C18: a startup that fails at the microphone or at the connect leaves the
\* status Error with nothing held: no microphone stream, no channel handle,
\* no capture processor.
C18_FailedStartReleases ==
    [][\A s \in Sessions :
        (MicDenied(s) \/ ConnectFail(s))
        => /\ status' = "Error"
           /\ micStreamRef' = 0 /\ ~micLive'[s]
           /\ activeSessionRef' = 0
           /\ scriptProcessorRef' = 0 /\ proc'[s] # "connected"]_vars

\* C19: each fragment of a delivery received while connected is appended to
\* the end of its own accumulator, the input and the output fragment
\* independently of each other.
C19_FragmentsAppended ==
    [][\A s \in Sessions, m \in TranscriptMessages :
        (status = "Connected" /\ ~m.turnComplete /\ OnMessage(s, m))
        => /\ currentInput' = currentInput \o m.input
           /\ currentOutput' = currentOutput \o m.output]_vars

\* C20: a fragment carried by the delivery that completes the turn is part of
\* the message that delivery finalises and is not carried over, and the audio
\* of the delivery is not started before the finalisation.
C20_DeliveryOrder ==
    [][\A s \in Sessions, m \in TranscriptMessages :
        (m.turnComplete /\ (m.hasInput \/ m.hasOutput) /\ OnMessage(s, m))
        => /\ messages' =
                SliceLast(messages \o Finalized(currentInput \o m.input,
                                                currentOutput \o m.output),
                          HistoryCap)
           /\ currentInput' = <<>>
           /\ currentOutput' = <<>>
           /\ started' = started]_vars

\* A step that runs stopConversation.
TeardownStep ==
    UserStop \/ \E s \in Sessions : ChannelClose(s) \/ ChannelError(s)

\* A step that runs the interrupted branch of onmessage: a delivery without
\* audio that carries the flag, or the resumption after the last decode of a
\* delivery that carries it.
InterruptStep ==
    \/ \E s \in Sessions, m \in AudioMessages :
          m.parts = 0 /\ m.interrupted /\ OnMessage(s, m)
    \/ \E h \in Handlers, d \in Durations :
          handlers[h].rest = 0 /\ handlers[h].intr /\ DecodeDone(h, d)

\* C21: nextStartTime decreases only in an interruption or a teardown, which
\* set it to 0; every other step leaves it alone, raises it to the device
\* time, or adds the duration of the buffer it starts.
C21_CursorMonotone ==
    [][\/ nextStartTime' = nextStartTime
       \/ nextStartTime' = 0 /\ (TeardownStep \/ InterruptStep)
       \/ nextStartTime' = now /\ now > nextStartTime
       \/ \E d \in Durations : nextStartTime' = nextStartTime + d]_vars

\* C21 witness: a buffer was started at a cursor above 0 (raised to the
\* device time or advanced by an earlier buffer), the cursor was advanced by
\* its duration, and an interruption then took the cursor back to 0.
C21_Witness ==
    /\ started.chunk # 0
    /\ started.start > 0
    /\ started.dead
    /\ nextStartTime = 0

C23_EventuallySilent ==
    []<>(sources = {}) => <>[](sources = {} /\ ~isModelSpeaking)

====
